---------------------------- MODULE Spec2Model ----------------------------
(***************************************************************************)
(* ClarityOS kernel: the two-layer dense network of llm.rs driven by       *)
(* kernel_main of main.rs, the DummyAllocator and the panic handler.       *)
(*                                                                         *)
(* Numbers are IEEE-754 binary32 values (Rust's f32), kept as their three  *)
(* bit fields and combined with round-to-nearest-even, so that a sum, a    *)
(* product, a comparison and the cast to i32 give the bits the build       *)
(* gives.                                                                  *)
(***************************************************************************)
EXTENDS Integers, Sequences, FiniteSets, TLC

(***************************************************************************)
(* f32: sign bit s, biased exponent ex (8 bits), fraction fr (23 bits).    *)
(***************************************************************************)
FracBits == 23

ExpBias == 127

ExpMax == 255

I32Max == 2147483647

I32Min == (-I32Max) - 1

Hidden == 2^FracBits

F32(s, ex, fr) == [s |-> s, ex |-> ex, fr |-> fr]

F32Set == [s : {0, 1}, ex : 0..ExpMax, fr : 0..(Hidden - 1)]

IsNaN(a) == a.ex = ExpMax /\ a.fr # 0

IsInf(a) == a.ex = ExpMax /\ a.fr = 0

IsZero(a) == a.ex = 0 /\ a.fr = 0

NaN == F32(0, ExpMax, 2^(FracBits - 1))

Inf(s) == F32(s, ExpMax, 0)

\* the literal 0.0
Zero == F32(0, 0, 0)

\* a finite value is (-1)^s * Sig * 2^Exp
Sig(a) == IF a.ex = 0 THEN a.fr ELSE Hidden + a.fr

Exp(a) == (IF a.ex = 0 THEN 1 ELSE a.ex) - (ExpBias + FracBits)

\* the number of bits of n, 0 <= n < 2^31
BitLen(n) == IF n = 0 THEN 0 ELSE CHOOSE k \in 1..31 : n \div 2^(k - 1) = 1

Abs(n) == IF n < 0 THEN -n ELSE n

\* n with its lowest bit set when inexact: the sticky bit of a discarded tail
Jam(n, inexact) == IF inexact /\ n % 2 = 0 THEN n + 1 ELSE n

(***************************************************************************)
(* Round n * 2^x (0 <= n < 2^31; when n carries a sticky bit it has at     *)
(* least two bits below the rounding point) to the nearest f32, ties to    *)
(* even, with gradual underflow and overflow to infinity.  (The operators  *)
(* of this section are functions of their arguments' values, F32Add(a, b)  *)
(* being Sum[a, b] and so on: TLC then computes an argument once.)         *)
(***************************************************************************)
Rounded[s \in {0, 1}, n \in Nat, x \in Int] ==
  IF n = 0 THEN F32(s, 0, 0)
  ELSE
    LET L      == BitLen(n)
        E      == x + L - 1
        normal == E >= 1 - ExpBias
        k      == IF normal THEN L - (FracBits + 1)
                            ELSE (1 - ExpBias - FracBits) - x
        q      == IF k <= 0 THEN n * 2^(-k)
                  ELSE IF k >= 31 THEN 0
                  ELSE n \div 2^k
        r      == IF k <= 0 THEN 0
                  ELSE IF k >= 31 THEN n
                  ELSE n % 2^k
        up     == IF k <= 0 \/ k >= 32 THEN FALSE
                  ELSE LET half == 2^(k - 1)
                       IN  r > half \/ (r = half /\ q % 2 = 1)
        q1     == IF up THEN q + 1 ELSE q
        \* the hidden bit of q1 carries into the exponent field
        base   == IF normal THEN E + ExpBias - 1 ELSE 0
        ex     == base + q1 \div Hidden
        fr     == q1 % Hidden
    IN  IF ex >= ExpMax THEN Inf(s) ELSE F32(s, ex, fr)

RoundPack(s, n, x) == Rounded[s, n, x]

\* a subnormal significand shifted up to 24 bits
RECURSIVE Norm(_, _)
Norm(m, e) == IF m >= Hidden THEN <<m, e>> ELSE Norm(2 * m, e - 1)

Product[a \in F32Set, b \in F32Set] ==
  LET s == (a.s + b.s) % 2
  IN
  IF IsNaN(a) \/ IsNaN(b) THEN NaN
  ELSE IF IsInf(a) \/ IsInf(b)
       THEN (IF IsZero(a) \/ IsZero(b) THEN NaN ELSE Inf(s))
  ELSE IF IsZero(a) \/ IsZero(b) THEN F32(s, 0, 0)
  ELSE
    LET na    == Norm(Sig(a), Exp(a))
        nb    == Norm(Sig(b), Exp(b))
        half  == 2^12
        a1    == na[1] \div half
        a0    == na[1] % half
        b1    == nb[1] \div half
        b0    == nb[1] % half
        cross == a1 * b0 + a0 * b1
        low   == (cross % half) * half + a0 * b0
        lo    == low % (2 * Hidden)
        hi    == a1 * b1 + cross \div half + low \div (2 * Hidden)
        \* the 48-bit product is hi * 2^24 + lo; keep 29 bits and a sticky bit
        n     == Jam(hi * 32 + lo \div 2^19, lo % 2^19 # 0)
    IN  RoundPack(s, n, na[2] + nb[2] + 19)

\* a * b
F32Mul(a, b) == Product[a, b]

Sum[a \in F32Set, b \in F32Set] ==
  IF IsNaN(a) \/ IsNaN(b) THEN NaN
  ELSE IF IsInf(a) THEN (IF IsInf(b) /\ a.s # b.s THEN NaN ELSE a)
  ELSE IF IsInf(b) THEN b
  ELSE IF IsZero(a) /\ IsZero(b) THEN F32(IF a.s = 1 /\ b.s = 1 THEN 1 ELSE 0, 0, 0)
  ELSE IF IsZero(a) THEN b
  ELSE IF IsZero(b) THEN a
  ELSE
    LET big   == IF Exp(a) >= Exp(b) THEN a ELSE b
        small == IF Exp(a) >= Exp(b) THEN b ELSE a
        d     == Exp(big) - Exp(small)
        A     == Sig(big) * 8
        S8    == Sig(small) * 8
        B     == IF d >= 28 THEN 1
                 ELSE Jam(S8 \div 2^d, S8 % 2^d # 0)
        sum   == IF big.s = small.s THEN A + B ELSE A - B
        s     == IF sum < 0 THEN small.s ELSE big.s
    IN  IF sum = 0 THEN Zero
        ELSE RoundPack(s, Abs(sum), Exp(big) - 3)

\* a + b
F32Add(a, b) == Sum[a, b]

\* the order of the finite values and the infinities, -0.0 and 0.0 together
Ord(a) == IF a.s = 1 THEN -(a.ex * Hidden + a.fr) ELSE a.ex * Hidden + a.fr

\* a < b
F32Lt(a, b) == ~IsNaN(a) /\ ~IsNaN(b) /\ Ord(a) < Ord(b)

\* a == b
F32Eq(a, b) == ~IsNaN(a) /\ ~IsNaN(b) /\ Ord(a) = Ord(b)

\* a cast that rounds toward minus infinity instead of toward zero
AsI32_floor(a) ==
  IF IsNaN(a) THEN 0
  ELSE IF IsInf(a) \/ Exp(a) >= 8
       THEN (IF a.s = 1 THEN I32Min ELSE I32Max)
  ELSE LET mag   == IF Exp(a) >= 0 THEN Sig(a) * 2^Exp(a)
                    ELSE IF Exp(a) <= -(FracBits + 1) THEN 0
                    ELSE Sig(a) \div 2^(-Exp(a))
           exact == IF Exp(a) >= 0 THEN TRUE
                    ELSE IF Exp(a) <= -(FracBits + 1) THEN Sig(a) = 0
                    ELSE Sig(a) % 2^(-Exp(a)) = 0
       IN  IF a.s = 1 THEN (IF exact THEN -mag ELSE -mag - 1) ELSE mag

(***************************************************************************)
(* `a as i32`: the value truncated toward zero, saturating at the bounds   *)
(* of i32, NaN to 0.                                                       *)
(***************************************************************************)
AsI32(a) ==
  IF IsNaN(a) THEN 0
  ELSE IF IsInf(a) \/ Exp(a) >= 8
       THEN (IF a.s = 1 THEN I32Min ELSE I32Max)
  ELSE LET mag == IF Exp(a) >= 0 THEN Sig(a) * 2^Exp(a)
                  ELSE IF Exp(a) <= -(FracBits + 1) THEN 0
                  ELSE Sig(a) \div 2^(-Exp(a))
       IN  IF a.s = 1 THEN -mag ELSE mag

(***************************************************************************)
(* A decimal literal n / 10^d of the source text as the compiler reads it: *)
(* the nearest f32.                                                        *)
(***************************************************************************)
Literal[n \in Int, d \in Nat] ==
  IF n = 0 THEN Zero
  ELSE
    LET p  == 10^d
        k1 == 31 - BitLen(Abs(n))
        n1 == (Abs(n) * 2^k1) \div p
        r1 == (Abs(n) * 2^k1) % p
        j  == 31 - BitLen(n1)
        n2 == n1 * 2^j + (r1 * 2^j) \div p
        r2 == (r1 * 2^j) % p
    IN  RoundPack(IF n < 0 THEN 1 ELSE 0, Jam(n2, r2 # 0), -(k1 + j))

Lit(n, d) == Literal[n, d]

(***************************************************************************)
(* vectormatrix: Vector<f32, N> is a sequence of N values read at indices  *)
(* 0..N-1, Matrix<f32, R, C> keeps its C columns, each a Vector<f32, R>.   *)
(***************************************************************************)
Ret(ok, val) == [ok |-> ok, val |-> val]

Vector_new(array) == array

InBounds(vector, i) == 0 <= i /\ i < Len(vector)

\* vector[i], a panic of the build when i is out of bounds
Index(vector, i) == vector[i + 1]

Matrix_new_rows(rows) ==
  [columns |-> [c \in 1..Len(rows[1]) |-> [r \in 1..Len(rows) |-> rows[r][c]]]]

\* a dot product that keeps the last term instead of the sum
RECURSIVE DotFrom_overwrite(_, _, _, _, _)
DotFrom_overwrite(m, v, r, c, acc) ==
  IF c > Len(m.columns) THEN acc
  ELSE DotFrom_overwrite(m, v, r, c + 1, F32Mul(m.columns[c][r], v[c]))

RECURSIVE DotFrom(_, _, _, _, _)
DotFrom(m, v, r, c, acc) ==
  IF c > Len(m.columns) THEN acc
  ELSE DotFrom(m, v, r, c + 1, F32Add(acc, F32Mul(m.columns[c][r], v[c])))

\* matrix * vector: the R x 1 matrix of the rows' dot products with the
\* vector, each accumulated left to right
MatMul(m, v) ==
  [columns |-> << [r \in 1..Len(m.columns[1]) |->
                     DotFrom(m, v, r, 2, F32Mul(m.columns[1][r], v[1]))] >>]

\* a + b, element by element
VecAdd(a, b) == [i \in 1..Len(a) |-> F32Add(a[i], b[i])]

(***************************************************************************)
(* llm.rs                                                                  *)
(***************************************************************************)
DenseLayer_new(weights_rows, biases) ==
  [weights |-> Matrix_new_rows(weights_rows), biases |-> Vector_new(biases)]

\* a forward pass that forgets the bias
forward_no_bias(self, inputs) ==
  LET output_matrix == MatMul(self.weights, inputs)
  IN  IF ~InBounds(output_matrix.columns, 0) THEN Ret(FALSE, <<>>)
      ELSE Ret(TRUE, Index(output_matrix.columns, 0))

forward(self, inputs) ==
  LET output_matrix == MatMul(self.weights, inputs)
  IN  IF ~InBounds(output_matrix.columns, 0) THEN Ret(FALSE, <<>>)
      ELSE LET output_vector == Index(output_matrix.columns, 0)
           IN  Ret(TRUE, VecAdd(output_vector, self.biases))

RECURSIVE relu_loop(_, _, _)
relu_loop(vector, i, D) ==
  IF i >= D THEN Ret(TRUE, vector)
  ELSE IF ~InBounds(vector, i) THEN Ret(FALSE, vector)
  ELSE relu_loop(IF F32Lt(Index(vector, i), Zero)
                 THEN [vector EXCEPT ![i + 1] = Zero]
                 ELSE vector,
                 i + 1, D)

\* a relu whose loop starts at index 1
relu_from_1(vector) == relu_loop(vector, 1, Len(vector))

\* a relu whose loop runs to index D inclusive
relu_past_end(vector) == relu_loop(vector, 0, Len(vector) + 1)

\* a leaky relu: a negative element is scaled by 0.1
RECURSIVE relu_leaky_loop(_, _, _)
relu_leaky_loop(vector, i, D) ==
  IF i >= D THEN Ret(TRUE, vector)
  ELSE relu_leaky_loop(IF F32Lt(Index(vector, i), Zero)
                       THEN [vector EXCEPT ![i + 1] = F32Mul(Lit(1, 1), @)]
                       ELSE vector,
                       i + 1, D)

relu_leaky(vector) == relu_leaky_loop(vector, 0, Len(vector))

relu(vector) == relu_loop(vector, 0, Len(vector))

(***************************************************************************)
(* The serial port: the lines written so far and the tokens of the line    *)
(* being written.  A token is the format string of the macro call with     *)
(* its argument, a string s or a number n.                                 *)
(***************************************************************************)
Tok(fmt, s, n) == [fmt |-> fmt, s |-> s, n |-> n]

NoOutput == [lines |-> <<>>, cur |-> <<>>]

serial_print(out, tok) == [out EXCEPT !.cur = Append(@, tok)]

serial_println(out, tok) ==
  [lines |-> Append(out.lines, Append(out.cur, tok)), cur |-> <<>>]

RECURSIVE print_loop(_, _, _, _)
print_loop(out, vector, i, D) ==
  IF i >= D THEN Ret(TRUE, out)
  ELSE IF ~InBounds(vector, i) THEN Ret(FALSE, out)
  ELSE print_loop(serial_print(out, Tok("{} ", "", AsI32(Index(vector, i)))),
                  vector, i + 1, D)

print_vector(out, vector, name) ==
  LET o1 == serial_println(out, Tok("{}:", name, 0))
      o2 == serial_print(o1, Tok("[ ", "", 0))
      r  == print_loop(o2, vector, 0, Len(vector))
  IN  IF r.ok THEN Ret(TRUE, serial_println(r.val, Tok("]", "", 0))) ELSE r

(***************************************************************************)
(* Bounds of the model.                                                    *)
(***************************************************************************)
\* the boot descriptors handed to kernel_main are 1..MaxBootInfo
MaxBootInfo == 8

\* Layout sizes 1..MaxSize and pointers 0..MaxSize of an allocator call
MaxSize == 2

\* dimensions IN and OUT of a layer under test are 1..MaxDim
MaxDim == 2

\* a vector under test has 0..MaxLen elements
MaxLen == 2

\* relu is called up to MaxCalls times on the vector under test
MaxCalls == 2

VARIABLES
  pc,            \* the statement of kernel_main (or of the test) to run next
  boot_info,     \* kernel_main's argument
  layer1, layer2, inputs, output1, final_output,   \* kernel_main's locals
  serial,        \* what the serial port has received
  panic_info,    \* the message of the panic being handled
  guard_call,    \* the last call of ALLOCATOR.alloc / dealloc, with its arguments
  alloc_ret,     \* what alloc returned to its caller
  t_rows, t_biases, t_layer, t_vec, t_name, t_out,  \* a call under test
  t_old, t_prev, t_calls  \* the vector before the first and the last call, the calls

locals == <<layer1, layer2, inputs, output1, final_output>>

guard == <<guard_call, alloc_ret>>

test == <<t_rows, t_biases, t_layer, t_vec, t_name, t_out, t_old, t_prev, t_calls>>

vars == <<pc, boot_info, locals, serial, panic_info, guard, test>>

NoVector == <<>>

NoLayer == [weights |-> [columns |-> <<>>], biases |-> <<>>]

NoCall == [op |-> "none", ptr |-> 0, size |-> 0, align |-> 0]

NoPtr == <<>>

BootInfos == 1..MaxBootInfo

\* the statements of kernel_main, in program order
Statements ==
  << "hello", "new_layer1", "new_layer2", "new_inputs", "print_inputs",
     "forward1", "print_before", "relu", "print_after", "forward2",
     "print_final", "complete" >>

Running == {Statements[i] : i \in 1..Len(Statements)}

NoTest ==
  /\ t_rows = <<>> /\ t_biases = <<>> /\ t_layer = NoLayer
  /\ t_vec = NoVector /\ t_name = "" /\ t_out = NoVector
  /\ t_old = NoVector /\ t_prev = NoVector /\ t_calls = 0

\* the boot handoff: entry_point!(kernel_main)
Init ==
  /\ pc = "hello"
  /\ boot_info \in BootInfos
  /\ layer1 = NoLayer /\ layer2 = NoLayer
  /\ inputs = NoVector /\ output1 = NoVector /\ final_output = NoVector
  /\ serial = NoOutput
  /\ panic_info = ""
  /\ guard_call = NoCall /\ alloc_ret = NoPtr
  /\ NoTest

\* panic!(msg): control passes to the panic handler and does not come back
Raise(msg) == pc' = "panic" /\ panic_info' = msg

(***************************************************************************)
(* main.rs: kernel_main, one action per statement.                         *)
(***************************************************************************)
Hello ==
  /\ pc = "hello"
  /\ serial' = serial_println(serial, Tok("Hello from ClarityOS Kernel!", "", 0))
  /\ pc' = "new_layer1"
  /\ UNCHANGED <<boot_info, locals, panic_info, guard, test>>

NewLayer1 ==
  /\ pc = "new_layer1"
  /\ layer1' = DenseLayer_new(<< Vector_new(<<Lit(1, 1), Lit(2, 1)>>),
                                 Vector_new(<<Lit(3, 1), Lit(4, 1)>>),
                                 Vector_new(<<Lit(5, 1), Lit(6, 1)>>) >>,
                              <<Lit(1, 1), Lit(2, 1), Lit(3, 1)>>)
  /\ pc' = "new_layer2"
  /\ UNCHANGED <<boot_info, layer2, inputs, output1, final_output, serial,
                 panic_info, guard, test>>

NewLayer2 ==
  /\ pc = "new_layer2"
  /\ layer2' = DenseLayer_new(<< Vector_new(<<Lit(7, 1), Lit(8, 1), Lit(9, 1)>>) >>,
                              <<Lit(4, 1)>>)
  /\ pc' = "new_inputs"
  /\ UNCHANGED <<boot_info, layer1, inputs, output1, final_output, serial,
                 panic_info, guard, test>>

NewInputs ==
  /\ pc = "new_inputs"
  /\ inputs' = Vector_new(<<Lit(10, 1), Lit(20, 1)>>)
  /\ pc' = "print_inputs"
  /\ UNCHANGED <<boot_info, layer1, layer2, output1, final_output, serial,
                 panic_info, guard, test>>

\* llm::print_vector(vector, name); then the statement `next`
Emit(vector, name, next) ==
  LET r == print_vector(serial, vector, name)
  IN  /\ serial' = r.val
      /\ IF r.ok THEN pc' = next /\ UNCHANGED panic_info
                 ELSE Raise("index out of bounds")
      /\ UNCHANGED <<boot_info, locals, guard, test>>

PrintInputs == pc = "print_inputs" /\ Emit(inputs, "Input", "forward1")

Forward1 ==
  /\ pc = "forward1"
  /\ LET r == forward(layer1, inputs)
     IN  /\ output1' = r.val
         /\ IF r.ok THEN pc' = "print_before" /\ UNCHANGED panic_info
                    ELSE Raise("index out of bounds")
  /\ UNCHANGED <<boot_info, layer1, layer2, inputs, final_output, serial,
                 guard, test>>

PrintBefore ==
  pc = "print_before" /\ Emit(output1, "Layer 1 Output (before ReLU)", "relu")

Relu ==
  /\ pc = "relu"
  /\ LET r == relu(output1)
     IN  /\ output1' = r.val
         /\ IF r.ok THEN pc' = "print_after" /\ UNCHANGED panic_info
                    ELSE Raise("index out of bounds")
  /\ UNCHANGED <<boot_info, layer1, layer2, inputs, final_output, serial,
                 guard, test>>

PrintAfter ==
  pc = "print_after" /\ Emit(output1, "Layer 1 Output (after ReLU)", "forward2")

Forward2 ==
  /\ pc = "forward2"
  /\ LET r == forward(layer2, output1)
     IN  /\ final_output' = r.val
         /\ IF r.ok THEN pc' = "print_final" /\ UNCHANGED panic_info
                    ELSE Raise("index out of bounds")
  /\ UNCHANGED <<boot_info, layer1, layer2, inputs, output1, serial,
                 guard, test>>

\* the last emission given the hidden layer's vector
PrintFinal_output1 == pc = "print_final" /\ Emit(output1, "Final Output", "complete")

PrintFinal == pc = "print_final" /\ Emit(final_output, "Final Output", "complete")

Complete ==
  /\ pc = "complete"
  /\ serial' = serial_println(serial, Tok("LLM test complete.", "", 0))
  /\ pc' = "idle"
  /\ UNCHANGED <<boot_info, locals, panic_info, guard, test>>

\* an idle loop that starts kernel_main over
Idle_restart ==
  /\ pc = "idle"
  /\ pc' = "hello"
  /\ UNCHANGED <<boot_info, locals, serial, panic_info, guard, test>>

\* loop {}
Idle == pc = "idle" /\ UNCHANGED vars

Next ==
  \/ Hello \/ NewLayer1 \/ NewLayer2 \/ NewInputs \/ PrintInputs
  \/ Forward1 \/ PrintBefore \/ Relu \/ PrintAfter \/ Forward2
  \/ PrintFinal \/ Complete \/ Idle

\* the kernel as the build runs it
Spec == Init /\ [][Next]_vars

\* the processor keeps executing kernel_main
FairSpec == Spec /\ WF_vars(Next)

(***************************************************************************)
(* main.rs: the global allocator and the panic handler.  No statement of   *)
(* kernel_main calls the allocator; SpecGuard adds code that does, at any  *)
(* statement and with any arguments.                                       *)
(***************************************************************************)
Layouts == [size : 1..MaxSize, align : {1, 2}]

Ptrs == 0..MaxSize

\* an allocator that answers with the null pointer
alloc_null(layout) ==
  /\ pc \in Running
  /\ guard_call' = [op |-> "alloc", ptr |-> 0, size |-> layout.size,
                    align |-> layout.align]
  /\ alloc_ret' = <<0>>
  /\ UNCHANGED <<pc, boot_info, locals, serial, panic_info, test>>

alloc(layout) ==
  /\ pc \in Running
  /\ guard_call' = [op |-> "alloc", ptr |-> 0, size |-> layout.size,
                    align |-> layout.align]
  /\ Raise("no allocator")
  /\ UNCHANGED <<boot_info, locals, serial, alloc_ret, test>>

dealloc(ptr, layout) ==
  /\ pc \in Running
  /\ guard_call' = [op |-> "dealloc", ptr |-> ptr, size |-> layout.size,
                    align |-> layout.align]
  /\ Raise("no allocator")
  /\ UNCHANGED <<boot_info, locals, serial, alloc_ret, test>>

\* a handler that halts without a word
panic_silent ==
  /\ pc = "panic"
  /\ pc' = "halt"
  /\ UNCHANGED <<boot_info, locals, serial, panic_info, guard, test>>

\* #[panic_handler]
panic ==
  /\ pc = "panic"
  /\ serial' = serial_println(serial, Tok("[PANIC] {}", panic_info, 0))
  /\ pc' = "halt"
  /\ UNCHANGED <<boot_info, locals, panic_info, guard, test>>

\* the handler's loop {}
Halt == pc = "halt" /\ UNCHANGED vars

NextGuard ==
  \/ Next
  \/ \E layout \in Layouts : alloc(layout)
  \/ \E ptr \in Ptrs, layout \in Layouts : dealloc(ptr, layout)
  \/ panic
  \/ Halt

SpecGuard == Init /\ [][NextGuard]_vars

\* the processor keeps executing the panic handler once it is entered
FairSpecGuard == SpecGuard /\ WF_vars(panic)
(***************************************************************************)
(* llm.rs called on its own, on layers and vectors drawn from small sets:  *)
(* one call of forward, up to MaxCalls calls of relu on the same vector,   *)
(* one call of print_vector.                                               *)
(***************************************************************************)
WeightVals == {Lit(1, 1), Lit(-7, 1)}

BiasVals == {Lit(3, 1), Lit(-4, 1)}

InputVals == {Lit(20, 1), Lit(-13, 1)}

\* -1.7, -0.5, -0.0, 0.0, 0.5, 3.0, 2^31, -2^31, -(2^31 + 256), 3e9
TestVals ==
  { Lit(-17, 1), Lit(-5, 1), F32(1, 0, 0), Zero, Lit(5, 1), Lit(3, 0),
    F32(0, 158, 0), F32(1, 158, 0), F32(1, 158, 1), F32(0, 158, 3331004) }

Names == {"Input", "Final Output"}

VectorsOver(S, lo, hi) == UNION {[1..n -> S] : n \in lo..hi}

InitTest ==
  /\ boot_info = 0
  /\ layer1 = NoLayer /\ layer2 = NoLayer
  /\ inputs = NoVector /\ output1 = NoVector /\ final_output = NoVector
  /\ serial = NoOutput
  /\ panic_info = ""
  /\ guard_call = NoCall /\ alloc_ret = NoPtr
  /\ t_out = NoVector /\ t_calls = 0
  /\ \/ /\ pc = "test_forward"
        /\ \E nin \in 1..MaxDim, nout \in 1..MaxDim :
             /\ t_rows \in [1..nout -> [1..nin -> WeightVals]]
             /\ t_biases \in [1..nout -> BiasVals]
             /\ t_vec \in [1..nin -> InputVals]
        /\ t_layer = DenseLayer_new(t_rows, t_biases)
        /\ t_name = ""
     \/ /\ pc = "test_relu"
        /\ t_vec \in VectorsOver(TestVals, 0, MaxLen)
        /\ t_rows = <<>> /\ t_biases = <<>> /\ t_layer = NoLayer /\ t_name = ""
     \/ /\ pc = "test_print"
        /\ t_vec \in VectorsOver(TestVals, 0, MaxLen)
        /\ t_name \in Names
        /\ t_rows = <<>> /\ t_biases = <<>> /\ t_layer = NoLayer
  /\ t_old = t_vec /\ t_prev = t_vec

Returned(r, done) ==
  IF r.ok THEN pc' = done /\ UNCHANGED panic_info
          ELSE Raise("index out of bounds")

TestForward ==
  /\ pc = "test_forward"
  /\ LET r == forward(t_layer, t_vec)
     IN  t_out' = r.val /\ Returned(r, "forward_done")
  /\ t_calls' = t_calls + 1
  /\ UNCHANGED <<boot_info, locals, serial, guard, t_rows, t_biases, t_layer,
                 t_vec, t_name, t_old, t_prev>>

TestRelu ==
  /\ pc = "test_relu"
  /\ t_calls < MaxCalls
  /\ LET r == relu(t_vec)
     IN  t_vec' = r.val /\ Returned(r, "test_relu")
  /\ t_prev' = t_vec
  /\ t_calls' = t_calls + 1
  /\ UNCHANGED <<boot_info, locals, serial, guard, t_rows, t_biases, t_layer,
                 t_name, t_out, t_old>>

TestPrint ==
  /\ pc = "test_print"
  /\ LET r == print_vector(serial, t_vec, t_name)
     IN  serial' = r.val /\ Returned(r, "print_done")
  /\ t_calls' = t_calls + 1
  /\ UNCHANGED <<boot_info, locals, guard, t_rows, t_biases, t_layer,
                 t_vec, t_name, t_out, t_old, t_prev>>

NextLlm == TestForward \/ TestRelu \/ TestPrint

SpecLlm == InitTest /\ [][NextLlm]_vars
(***************************************************************************)
(* What the serial port shows.                                             *)
(***************************************************************************)
LabelLine(name) == <<Tok("{}:", name, 0)>>

Banner == <<Tok("Hello from ClarityOS Kernel!", "", 0)>>

Marker == <<Tok("LLM test complete.", "", 0)>>

PanicLine(msg) == <<Tok("[PANIC] {}", msg, 0)>>

\* the numbers of a line "[ v0 v1 ... ]", <<>> for a line of another form
Shown(line) ==
  IF /\ Len(line) >= 2
     /\ line[1] = Tok("[ ", "", 0)
     /\ line[Len(line)] = Tok("]", "", 0)
     /\ \A i \in 2..(Len(line) - 1) : line[i].fmt = "{} " /\ line[i].s = ""
  THEN [i \in 1..(Len(line) - 2) |-> line[i + 1].n]
  ELSE <<>>

IsVectorLine(line) ==
  Len(line) >= 2 /\ Len(Shown(line)) = Len(line) - 2

IsLabelLine(line) == Len(line) = 1 /\ line[1].fmt = "{}:"

IsPrefix(a, b) == Len(a) <= Len(b) /\ \A i \in 1..Len(a) : a[i] = b[i]

IsNegative(a) == a.s = 1 /\ ~IsZero(a) /\ ~IsNaN(a)

(***************************************************************************)
(* d is the finite value a truncated toward zero: d has the sign of a or   *)
(* is 0, and |d| <= |a| < |d| + 1.                                         *)
(***************************************************************************)
IsTruncOf(d, a) ==
  LET m == Sig(a)
      e == Exp(a)
  IN  IF d = I32Min THEN a.s = 1 /\ e = 8 /\ m = Hidden
      ELSE /\ (d > 0 => a.s = 0) /\ (d < 0 => a.s = 1)
           /\ IF e >= 8 THEN FALSE
              ELSE IF e >= 0 THEN Abs(d) = m * 2^e
              ELSE IF -e > FracBits THEN d = 0
              ELSE /\ Abs(d) < 2^(FracBits + 1 + e)
                   /\ Abs(d) * 2^(-e) <= m
                   /\ m < (Abs(d) + 1) * 2^(-e)

\* d is a truncated toward zero and then clamped to the range of i32
IsClampedTruncOf(d, a) ==
  IF Exp(a) >= 8 THEN d = (IF a.s = 1 THEN I32Min ELSE I32Max)
  ELSE IsTruncOf(d, a)

\* sum over c in 0..n-1 of w[c] * x[c], in f32, left to right
RECURSIVE RowSum(_, _, _)
RowSum(w, x, n) ==
  IF n = 1 THEN F32Mul(w[1], x[1])
  ELSE F32Add(RowSum(w, x, n - 1), F32Mul(w[n], x[n]))

(***************************************************************************)
(* C1: forward returns a vector of length OUT with                         *)
(* y[r] = (sum over c of W[r][c] * x[c]) + b[r] for every r, W the rows    *)
(* and b the biases the layer was built from, and leaves the layer and     *)
(* the input as they were.                                                 *)
(***************************************************************************)
C1_ForwardIsAffine ==
  pc = "forward_done" =>
    /\ Len(t_out) = Len(t_rows)
    /\ \A r \in 1..Len(t_rows) :
         F32Eq(t_out[r],
               F32Add(RowSum(t_rows[r], t_vec, Len(t_vec)), t_biases[r]))
    /\ t_layer = DenseLayer_new(t_rows, t_biases)
    /\ t_vec = t_old

C1_Witness ==
  /\ pc = "forward_done"
  /\ Len(t_rows) = 2 /\ Len(t_vec) = 2
  /\ t_rows[1][1] # t_rows[1][2] /\ t_rows[1] # t_rows[2]
  /\ t_biases[1] # t_biases[2] /\ t_vec[1] # t_vec[2]

(***************************************************************************)
(* C7: after relu every index holds max(old value, 0): a negative element  *)
(* has become 0.0, any other element has kept its value, and the length    *)
(* is the same.                                                            *)
(***************************************************************************)
C7_ReluIsMaxZero ==
  (pc = "test_relu" /\ t_calls >= 1) =>
    /\ Len(t_vec) = Len(t_old)
    /\ \A i \in 1..Len(t_old) :
         t_vec[i] = (IF IsNegative(t_old[i]) THEN Zero ELSE t_old[i])

C7_Witness ==
  /\ pc = "test_relu" /\ t_calls = 1 /\ Len(t_old) = 2
  /\ IsNegative(t_old[2]) /\ t_vec[2] = Zero
  /\ ~IsNegative(t_old[1]) /\ ~IsZero(t_old[1]) /\ t_vec[1] = t_old[1]

(***************************************************************************)
(* C8: relu is idempotent: a second call of relu leaves the vector as the  *)
(* first call left it.                                                     *)
(***************************************************************************)
C8_ReluIdempotent ==
  (pc = "test_relu" /\ t_calls >= 2) => t_vec = t_prev

C8_Witness ==
  /\ pc = "test_relu" /\ t_calls = 2 /\ Len(t_old) = 2
  /\ IsNegative(t_old[1]) /\ t_vec # t_old

(***************************************************************************)
(* C9 as stated: print_vector writes exactly two lines and leaves v as it  *)
(* was: the label line "<name>:", then "[ v0 ... v(N-1) ]" with the N      *)
(* elements in index order, each shown as its value truncated toward zero. *)
(***************************************************************************)
C9_PrintTruncates ==
  pc = "print_done" =>
    /\ t_vec = t_old
    /\ serial.cur = <<>>
    /\ Len(serial.lines) = 2
    /\ serial.lines[1] = LabelLine(t_name)
    /\ IsVectorLine(serial.lines[2])
    /\ Len(Shown(serial.lines[2])) = Len(t_vec)
    /\ \A i \in 1..Len(t_vec) : IsTruncOf(Shown(serial.lines[2])[i], t_vec[i])

(***************************************************************************)
(* C9 amended: as above, each element shown as its value truncated toward  *)
(* zero and clamped to the range of i32: an element of 2^31 or more is     *)
(* shown as 2147483647, one of -2^31 or less as -2147483648.               *)
(***************************************************************************)
C9_PrintTruncatesClamped ==
  pc = "print_done" =>
    /\ t_vec = t_old
    /\ serial.cur = <<>>
    /\ Len(serial.lines) = 2
    /\ serial.lines[1] = LabelLine(t_name)
    /\ IsVectorLine(serial.lines[2])
    /\ Len(Shown(serial.lines[2])) = Len(t_vec)
    /\ \A i \in 1..Len(t_vec) :
         IsClampedTruncOf(Shown(serial.lines[2])[i], t_vec[i])

C9_Witness ==
  /\ pc = "print_done" /\ Len(t_vec) = 2
  /\ t_vec[1] = Lit(-17, 1) /\ t_vec[2] = F32(0, 158, 3331004)
  /\ Shown(serial.lines[2]) = <<-1, I32Max>>
(***************************************************************************)
(* The run of kernel_main on the serial port.                              *)
(***************************************************************************)
LineKind(line) ==
  IF line = Banner THEN "banner"
  ELSE IF line = Marker THEN "marker"
  ELSE IF IsLabelLine(line) THEN line[1].s
  ELSE IF IsVectorLine(line) THEN "vector"
  ELSE "other"

Kinds(lines) == [i \in 1..Len(lines) |-> LineKind(lines[i])]

\* the four labeled vectors and the completion marker
RunKinds ==
  << "Input", "vector", "Layer 1 Output (before ReLU)", "vector",
     "Layer 1 Output (after ReLU)", "vector", "Final Output", "vector",
     "marker" >>

IsLabelOrMarker(line) == IsLabelLine(line) \/ line = Marker

Display(vector) == [i \in 1..Len(vector) |-> AsI32(vector[i])]

\* within two units in the last place (2.4e-7 of the value)
Close(a, b) == Abs(Ord(a) - Ord(b)) <= 2

Halted == {"panic", "halt"}

(***************************************************************************)
(* C2: the labeled emissions come in the order "Input", "Layer 1 Output    *)
(* (before ReLU)", "Layer 1 Output (after ReLU)", "Final Output", then     *)
(* the completion marker, each exactly once; the vector under "before      *)
(* ReLU" is layer1.forward(input), the one under "after ReLU" is that      *)
(* vector after relu, the one under "Final Output" is layer2.forward of    *)
(* the rectified vector.                                                   *)
(***************************************************************************)
C2_EmissionOrder ==
  LET lines == serial.lines
      pre   == forward(layer1, inputs).val
      post  == relu(pre).val
      under(name, vector) ==
        \A i \in 1..Len(lines) :
          lines[i] = LabelLine(name) =>
            i < Len(lines) /\ IsVectorLine(lines[i + 1])
                           /\ Shown(lines[i + 1]) = Display(vector)
  IN  /\ IsPrefix(SelectSeq(lines, IsLabelOrMarker),
                  << LabelLine("Input"),
                     LabelLine("Layer 1 Output (before ReLU)"),
                     LabelLine("Layer 1 Output (after ReLU)"),
                     LabelLine("Final Output"),
                     Marker >>)
      /\ pc = "idle" => Len(SelectSeq(lines, IsLabelOrMarker)) = 5
      /\ under("Input", inputs)
      /\ under("Layer 1 Output (before ReLU)", pre)
      /\ under("Layer 1 Output (after ReLU)", post)
      /\ under("Final Output", forward(layer2, post).val)
      /\ pc = "print_before" => output1 = pre
      /\ pc \in {"print_after", "forward2"} => output1 = post
      /\ pc \in {"print_final", "complete", "idle"} =>
           output1 = post /\ final_output = forward(layer2, post).val

C2_Witness ==
  /\ pc = "idle"
  /\ Kinds(serial.lines) = <<"banner">> \o RunKinds
  /\ Shown(serial.lines[3]) = <<1, 2>>
  /\ Shown(serial.lines[9]) = Display(final_output)

(***************************************************************************)
(* C3 as stated: over the whole run the serial port receives the four      *)
(* labeled vectors and the completion marker and nothing else, nothing     *)
(* before the "Input" label.                                               *)
(***************************************************************************)
C3_OnlyLabeledVectors == IsPrefix(Kinds(serial.lines), RunKinds)

(***************************************************************************)
(* C3 amended: the serial port receives the line "Hello from ClarityOS     *)
(* Kernel!" first, then the four labeled vectors and the completion        *)
(* marker and nothing else; once kernel_main idles nothing is written      *)
(* again and control never leaves the idle loop.                           *)
(***************************************************************************)
C3_BannerThenLabeledVectors ==
  /\ [](/\ IsPrefix(Kinds(serial.lines), <<"banner">> \o RunKinds)
        /\ serial.cur = <<>>
        /\ pc = "idle" => Kinds(serial.lines) = <<"banner">> \o RunKinds)
  /\ [][pc = "idle" => UNCHANGED vars]_vars

C3_Witness ==
  /\ pc = "idle"
  /\ serial.lines[1] = Banner
  /\ serial.lines[2] = LabelLine("Input")
  /\ serial.lines[Len(serial.lines)] = Marker

(***************************************************************************)
(* C4: a call of alloc or dealloc, whatever its arguments and wherever it  *)
(* is made, halts the process: no pointer comes back, no statement of the  *)
(* caller runs after it, and the halted state is never left.               *)
(***************************************************************************)
C4_GuardHalts ==
  /\ [](guard_call.op # "none" =>
          pc \in Halted /\ alloc_ret = NoPtr /\ panic_info = "no allocator")
  /\ [][guard_call' # guard_call => (pc \notin Halted /\ pc' = "panic")]_vars
  /\ [][(pc \in Halted) =>
          (pc' \in Halted /\ UNCHANGED <<boot_info, locals, guard>>)]_vars
  /\ [][pc = "halt" => UNCHANGED vars]_vars

C4_Witness ==
  /\ pc = "halt"
  /\ guard_call.op = "dealloc" /\ guard_call.ptr = 1 /\ guard_call.size = 2
  /\ output1 # NoVector /\ final_output = NoVector

(***************************************************************************)
(* C5: when a panic is raised, the allocator's included, the handler       *)
(* writes the message to the serial port exactly once and then halts for   *)
(* good: it never returns, no statement after the panic point runs and     *)
(* nothing more is written.                                                *)
(***************************************************************************)
PanicLines(lines) ==
  Cardinality({i \in 1..Len(lines) : lines[i][Len(lines[i])].fmt = "[PANIC] {}"})

C5_PanicWrittenOnceThenHalt ==
  /\ [](/\ pc = "halt" =>
             /\ PanicLines(serial.lines) = 1
             /\ serial.lines[Len(serial.lines)] = PanicLine(panic_info)
        /\ pc # "halt" => PanicLines(serial.lines) = 0)
  /\ [][pc = "panic" =>
          (/\ pc' = "halt"
           /\ serial'.lines = Append(serial.lines, serial.cur \o PanicLine(panic_info))
           /\ UNCHANGED <<boot_info, locals, guard, panic_info>>)]_vars
  /\ [][pc = "halt" => UNCHANGED vars]_vars
  /\ (pc = "panic") ~> (pc = "halt")

C5_Witness ==
  /\ pc = "halt"
  /\ guard_call.op = "alloc"
  /\ Len(serial.lines) = 4
  /\ serial.lines[4] = PanicLine("no allocator")

(***************************************************************************)
(* C6: with the literal data of kernel_main the pre-activation vector is   *)
(* [0.6, 1.3, 2.0], relu leaves it as it is, every element being           *)
(* non-negative, the final output is [3.66] and the "Final Output" line    *)
(* shows 3.  The values are f32: equal to the decimals within two units    *)
(* in the last place.                                                      *)
(***************************************************************************)
C6_EndToEnd ==
  LET pre == forward(layer1, inputs).val
  IN  /\ pc \in {"print_before", "relu"} =>
           /\ Len(output1) = 3
           /\ Close(output1[1], Lit(6, 1))
           /\ Close(output1[2], Lit(13, 1))
           /\ Close(output1[3], Lit(20, 1))
           /\ \A i \in 1..3 : ~IsNegative(output1[i])
      /\ pc \in {"print_after", "forward2", "print_final", "complete", "idle"} =>
           output1 = pre
      /\ pc \in {"print_final", "complete", "idle"} =>
           Len(final_output) = 1 /\ Close(final_output[1], Lit(366, 2))
      /\ pc \in {"complete", "idle"} =>
           /\ serial.lines[8] = LabelLine("Final Output")
           /\ Shown(serial.lines[9]) = <<3>>

C6_Witness ==
  /\ pc = "idle"
  /\ output1 = <<Lit(6, 1), F32(0, 127, 2516583), Lit(20, 1)>>
  /\ final_output = <<Lit(366, 2)>>
  /\ Shown(serial.lines[9]) = <<3>>

(***************************************************************************)
(* C10: the run of kernel_main never calls the allocator and never enters  *)
(* the panic handler, and it reaches the completion marker and then idles  *)
(* for good.                                                               *)
(***************************************************************************)
C10_NoFailurePath ==
  /\ [](/\ pc \notin Halted
        /\ panic_info = ""
        /\ guard_call = NoCall /\ alloc_ret = NoPtr)
  /\ <>[](pc = "idle" /\ serial.lines[Len(serial.lines)] = Marker)

C10_Witness ==
  /\ pc = "idle"
  /\ serial.lines[Len(serial.lines)] = Marker
  /\ final_output # NoVector
  /\ guard_call = NoCall
=============================================================================
